---- MODULE Spec2Model ----
(***************************************************************************)
(* Model of the pluviorn acquisition scripts:                              *)
(*   - the EMPARN daily-bulletin run (scripts/fetch-emparn.js and the      *)
(*     second script held in scripts/fetch-inmet.js, which differs in its  *)
(*     fetchHtmlProxy),                                                    *)
(*   - the identifier resolver idDoDia used by that run,                   *)
(*   - the INMET station-API run (first script of scripts/fetch-inmet.js). *)
(* Text is modelled as sequences of one-character strings; instants are    *)
(* counted in minutes since the Unix epoch (the code counts milliseconds). *)
(***************************************************************************)
EXTENDS Integers, Sequences, FiniteSets, TLC

VARIABLES
    script,       \* which bulletin script runs: "emparn" or "inmet"
    now,          \* the clock read by new Date() / Date.now(), minutes since epoch
    FORCED_DATE,  \* process.env.FORCED_DATE || null  (<< >> is null)
    hostTZ,       \* UTC offset (minutes) of the machine evaluating the script
    pc,           \* position of the run
    idHoje,       \* const idHoje = idDoDia()
    candidatos,   \* const candidatos = [idHoje, idHoje - 1, idHoje + 1]
    ci,           \* index in candidatos of the loop variable id
    via,          \* transport strategy of the request being awaited
    r1,           \* status of r1 kept by fetchHtmlProxy while r2 is awaited
    net,          \* requests issued so far, each with the reply it received
    html,         \* the body handed to extrairAbasDoHTML
    dados,        \* rows extracted from html
    rendered,     \* file data/rendered.html
    latestJson,   \* file data/latest.json
    latestCsv,    \* file data/latest.csv
    console,      \* console.warn lines of the candidate loop
    err,          \* error surfaced to the top-level catch
    exitCode,     \* process exit status (-1 while running)
    \* the station-API run (first script of fetch-inmet.js)
    UF,           \* (process.env.UF || "RN").toUpperCase()
    DIAS,         \* Math.max(1, parseInt(process.env.DIAS || "3", 10))
    apc,          \* position of the station-API run
    reqs,         \* requests issued by getJSON, each with its outcome
    stations,     \* the array answered by /estacoes
    stationByCode,\* Map code -> station of the configured UF
    rows,         \* the array answered by /estacoes/T
    out,          \* records joined with their station
    uniq,         \* out after the dedup
    inmetJson,    \* file data/inmet.json
    apiJson,      \* file data/latest.json as the station-API run writes it
    apiCsv,       \* file data/latest.csv as the station-API run writes it
    apiExit,      \* process exit status of the station-API run (-1 while running)
    \* the normalisation of one raw precipitation value
    raw,          \* the raw value: << >> when missing or null, else << text >>
    npc,          \* "raw" before the value is normalised, "done" after
    precBR,       \* parseNumberBR(raw), the bulletin scripts' normaliser
    precApi       \* numberOrNull(raw), the station-API script's normaliser

apiVars == <<UF, DIAS, apc, reqs, stations, stationByCode, rows, out, uniq,
             inmetJson, apiJson, apiCsv, apiExit>>

bulletinVars == <<script, FORCED_DATE, hostTZ, pc, idHoje, candidatos, ci, via, r1,
                  net, html, dados, rendered, latestJson, latestCsv, console, err,
                  exitCode>>

numVars == <<raw, npc, precBR, precApi>>

vars == <<now, bulletinVars, apiVars, numVars>>

inputVars == <<script, now, FORCED_DATE, hostTZ>>

-----------------------------------------------------------------------------
(* Bounds of the model *)

\* length, in days, of each of the two windows the clock and the forced dates
\* range over: from 2025-10-27 (month ends, a year end) and from 2028-02-20
\* (a leap day)
MaxDay == 75

-----------------------------------------------------------------------------
(* Text helpers *)

DigitChars == <<"0", "1", "2", "3", "4", "5", "6", "7", "8", "9">>

IsDigit(c) == \E i \in 1..10 : DigitChars[i] = c

DigitVal(c) == (CHOOSE i \in 1..10 : DigitChars[i] = c) - 1

\* the value of an expression, computed once: the bound variable of a set
\* constructor holds a value where a LET or a parameter holds an expression
Valor(S) == CHOOSE v \in S : TRUE

RECURSIVE DigitsValue(_)
\* value of a string of decimal digits
DigitsValue(s0) ==
    Valor({IF s = << >> THEN 0
           ELSE 10 * DigitsValue(SubSeq(s, 1, Len(s) - 1)) + DigitVal(s[Len(s)])
           : s \in {s0}})

\* Number(s) for the fields the resolver parses: "" is 0, digits are their value
Number(s) == DigitsValue(s)

RECURSIVE Split(_, _)
\* String.prototype.split(sep) for a one-character separator
Split(s0, sep) ==
    Valor({IF \A i \in 1..Len(s) : s[i] # sep THEN << s >>
           ELSE LET k == CHOOSE i \in 1..Len(s) :
                             s[i] = sep /\ \A j \in 1..(i - 1) : s[j] # sep
                IN  << SubSeq(s, 1, k - 1) >> \o Split(SubSeq(s, k + 1, Len(s)), sep)
           : s \in {s0}})

\* String(n).padStart(2, "0") for 0 <= n <= 99
Pad2(n) == << DigitChars[(n \div 10) + 1], DigitChars[(n % 10) + 1] >>

\* the four digits of a year 1000..9999
Pad4(n) == << DigitChars[(n \div 1000) + 1], DigitChars[((n \div 100) % 10) + 1],
              DigitChars[((n \div 10) % 10) + 1], DigitChars[(n % 10) + 1] >>

-----------------------------------------------------------------------------
(* Calendar arithmetic of the JavaScript Date object (proleptic Gregorian) *)

\* minutes per day: the code's 1000 * 60 * 60 * 24 milliseconds
MinPerDay == 1440

\* the offset of the machine's own zone: what formatting without the timeZone
\* option would use
TZOffsetDoHost == hostTZ

\* UTC offset, in minutes, of TZ = "America/Fortaleza" (UTC-3, no DST)
TZOffset == -180

\* days from 1970-01-01 to the civil date y-m-d (m in 1..12)
DaysFromCivil(y, m, d) ==
    LET yy  == IF m <= 2 THEN y - 1 ELSE y
        era == yy \div 400
        yoe == yy - era * 400
        mp  == IF m > 2 THEN m - 3 ELSE m + 9
        doy == ((153 * mp + 2) \div 5) + d - 1
        doe == yoe * 365 + (yoe \div 4) - (yoe \div 100) + doy
    IN  era * 146097 + doe - 719468

\* the civil date of day number z, as [y, m, d]
CivilFromDays(z) ==
    LET zz  == z + 719468
        era == zz \div 146097
        doe == zz - era * 146097
        yoe == (doe - (doe \div 1460) + (doe \div 36524) - (doe \div 146096)) \div 365
        doy == doe - (365 * yoe + (yoe \div 4) - (yoe \div 100))
        mp  == (5 * doy + 2) \div 153
        d   == doy - ((153 * mp + 2) \div 5) + 1
        m   == IF mp < 10 THEN mp + 3 ELSE mp - 9
        y   == yoe + era * 400
    IN  [y |-> IF m <= 2 THEN y + 1 ELSE y, m |-> m, d |-> d]

\* Date.UTC(year, monthIndex, day): month and day overflow carry over
DateUTC(year, monthIndex, day) ==
    (DaysFromCivil(year + (monthIndex \div 12), (monthIndex % 12) + 1, 1) + day - 1)
        * MinPerDay

\* Math.round(n / d) for d > 0: halves round towards +infinity
MathRound(n, d) == (2 * n + d) \div (2 * d)

-----------------------------------------------------------------------------
(* Configuration *)

BASE_DATE == << "2", "0", "2", "5", "-", "1", "0", "-", "2", "9" >>

BASE_ID == 10965

-----------------------------------------------------------------------------
(* idDoDia *)

\* an optional argument: << >> is undefined, << t >> is the instant t
Truthy(dateLike) == dateLike # << >> /\ dateLike[1] # 0

\* Intl.DateTimeFormat("pt-BR", {timeZone: TZ, ...}).format(d): DD/MM/AAAA,
\* where agora is what new Date() reads
formatDateLocalAt(agora, dateLike) ==
    LET d == IF Truthy(dateLike) THEN dateLike[1] ELSE agora
    IN  Valor({Pad2(c.d) \o << "/" >> \o Pad2(c.m) \o << "/" >> \o Pad4(c.y)
               : c \in {CivilFromDays((d + TZOffset) \div MinPerDay)}})

formatDateLocal(dateLike) == formatDateLocalAt(now, dateLike)

\* the month passed to Date.UTC as written, not as an index
MeiaNoiteUTCSemIndice(yyyy, mm, dd) == DateUTC(yyyy, mm, dd)

\* new Date(Date.UTC(yyyy, mm - 1, dd)): midnight UTC of a parsed date
MeiaNoiteUTC(yyyy, mm, dd) == DateUTC(yyyy, mm - 1, dd)

\* /\d{2}\/\d{2}\/\d{4}/.test(s)   (not anchored)
TestDMY(s) ==
    \E i \in 1..(Len(s) - 9) :
        /\ \A k \in {0, 1, 3, 4, 6, 7, 8, 9} : IsDigit(s[i + k])
        /\ s[i + 2] = "/" /\ s[i + 5] = "/"

\* /\d{4}-\d{2}-\d{2}/.test(s)   (not anchored)
TestYMD(s) ==
    \E i \in 1..(Len(s) - 9) :
        /\ \A k \in {0, 1, 2, 3, 5, 6, 8, 9} : IsDigit(s[i + k])
        /\ s[i + 4] = "-" /\ s[i + 7] = "-"

\* idDoDia with its two ambient inputs made explicit: forced is FORCED_DATE,
\* agora is what new Date() / Date.now() reads
idDoDiaAt(forced, agora, dateLike) ==
    LET Parsed(p, y, m, d) == MeiaNoiteUTC(Number(p[y]), Number(p[m]), Number(p[d]))
        alvo ==
            IF forced # << >> THEN
                IF TestDMY(forced) THEN
                    Valor({Parsed(p, 3, 2, 1) : p \in {Split(forced, "/")}})
                ELSE IF TestYMD(forced) THEN
                    Valor({Parsed(p, 1, 2, 3) : p \in {Split(forced, "-")}})
                ELSE
                    IF Truthy(dateLike) THEN dateLike[1] ELSE agora
            ELSE
                Valor({Parsed(p, 3, 2, 1)
                       : p \in {Split(formatDateLocalAt(agora, dateLike), "/")}})
        baseMid == Valor({Parsed(b, 1, 2, 3) : b \in {Split(BASE_DATE, "-")}})
    IN  Valor({BASE_ID + MathRound(a - bm, MinPerDay) : a \in {alvo}, bm \in {baseMid}})

idDoDia(dateLike) == idDoDiaAt(FORCED_DATE, now, dateLike)

-----------------------------------------------------------------------------
(* Numbers read from text *)

\* the values a parsed number can take: null, NaN, an infinity, or the finite
\* decimal (-1)^neg * m / 10^e
Null == [t |-> "null"]

NaN == [t |-> "nan"]

Infinito(neg) == [t |-> "inf", neg |-> neg]

RECURSIVE Decimal(_, _, _)
\* the finite decimal m / 10^e, trailing zeros of the fraction dropped
Decimal(neg, m, e) ==
    IF e > 0 /\ m % 10 = 0 THEN Decimal(neg, m \div 10, e - 1)
    ELSE [t |-> "num", neg |-> (neg /\ m # 0), m |-> m, e |-> e]

IsWhite(c) == c \in {" ", "\n", "\t"}

RECURSIVE RemoveAll(_, _)
\* s.replace(/c/g, "")
RemoveAll(s, c) ==
    IF s = << >> THEN << >>
    ELSE (IF s[1] = c THEN << >> ELSE << s[1] >>) \o RemoveAll(Tail(s), c)

\* s.replace(a, b): only the first occurrence
ReplaceFirst(s, a, b) ==
    IF \A i \in 1..Len(s) : s[i] # a THEN s
    ELSE LET k == CHOOSE i \in 1..Len(s) :
                      s[i] = a /\ \A j \in 1..(i - 1) : s[j] # a
         IN  [s EXCEPT ![k] = b]

\* the longest prefix of s made of digits
DigitPrefix(s) ==
    LET n == CHOOSE k \in 0..Len(s) :
                 /\ \A i \in 1..k : IsDigit(s[i])
                 /\ (k < Len(s) => ~IsDigit(s[k + 1]))
    IN  SubSeq(s, 1, n)

RECURSIVE TrimStart(_)
TrimStart(s) == IF s # << >> /\ IsWhite(s[1]) THEN TrimStart(Tail(s)) ELSE s

RECURSIVE TrimEnd(_)
TrimEnd(s) ==
    IF s # << >> /\ IsWhite(s[Len(s)]) THEN TrimEnd(SubSeq(s, 1, Len(s) - 1)) ELSE s

Trim(s) == TrimEnd(TrimStart(s))

StartsWith(s, p) == Len(s) >= Len(p) /\ SubSeq(s, 1, Len(p)) = p

\* parseFloat(s), for text without an exponent part: leading white space is
\* skipped, then the longest prefix [+-]digits[.digits] is read
parseFloat(s) ==
    LET t    == TrimStart(s)
        sgn  == t # << >> /\ t[1] \in {"+", "-"}
        neg  == t # << >> /\ t[1] = "-"
        u    == IF sgn THEN Tail(t) ELSE t
        int  == DigitPrefix(u)
        rest == SubSeq(u, Len(int) + 1, Len(u))
        frac == IF rest # << >> /\ rest[1] = "." THEN DigitPrefix(Tail(rest)) ELSE << >>
    IN  IF StartsWith(u, << "I", "n", "f", "i", "n", "i", "t", "y" >>) THEN Infinito(neg)
        ELSE IF int = << >> /\ frac = << >> THEN NaN
        ELSE Decimal(neg, DigitsValue(int \o frac), Len(frac))

\* every parsed value let through as finite
SempreFinito(n) == TRUE

\* Number.isFinite(n)
IsFinite(n) == n.t = "num"

\* a cell the row does not have (undefined), or null
Undefined == << >>

parseNumberBR(s) ==
    IF s = Undefined \/ s = << >> THEN Null
    ELSE LET n == parseFloat(ReplaceFirst(RemoveAll(s, "."), ",", "."))
         IN  IF IsFinite(n) THEN n ELSE Null

-----------------------------------------------------------------------------
(* Table extraction.  A document maps each tab to the tables found under its *)
(* "#<id>-content" container; a table is the sequence of its tbody rows, a    *)
(* row the sequence of the texts of its td cells.                             *)

tabs == << [id |-> "agreste_potiguar", nome |-> "Agreste Potiguar"],
           [id |-> "central_potiguar", nome |-> "Central Potiguar"],
           [id |-> "leste_potiguar",   nome |-> "Leste Potiguar"],
           [id |-> "oeste_potiguar",   nome |-> "Oeste Potiguar"] >>

RECURSIVE CollapseWs(_)
\* s.replace(/\s+/g, " ")
CollapseWs(s) ==
    IF s = << >> THEN << >>
    ELSE IF IsWhite(s[1])
         THEN << " " >> \o CollapseWs(TrimStart(s))
         ELSE << s[1] >> \o CollapseWs(Tail(s))

\* $(td).text().replace(/\s+/g, " ").trim()
CellText(td) == Trim(CollapseWs(td))

RECURSIVE Flatten(_)
\* concatenation of a sequence of sequences
Flatten(ss) == IF ss = << >> THEN << >> ELSE ss[1] \o Flatten(Tail(ss))

\* x || null for a text: the empty text and undefined both give null (<< >>)
OrNull(tds, i) == IF i <= Len(tds) THEN tds[i] ELSE << >>

\* rows of fewer than five cells skipped as well
LinhaEstrita(tr, regiao) ==
    LET tds == [i \in 1..Len(tr) |-> CellText(tr[i])]
    IN  IF Len(tds) < 5 THEN << >>
        ELSE << [regiao          |-> regiao,
                 municipio       |-> OrNull(tds, 1),
                 posto           |-> OrNull(tds, 2),
                 tipo_posto      |-> OrNull(tds, 3),
                 horas           |-> OrNull(tds, 4),
                 precipitacao_mm |-> parseNumberBR(OrNull(tds, 5))] >>

\* the record pushed for one tr; << >> when the row is skipped
Linha(tr, regiao) ==
    LET tds == [i \in 1..Len(tr) |-> CellText(tr[i])]
    IN  IF Len(tds) = 0 THEN << >>
        ELSE << [regiao          |-> regiao,
                 municipio       |-> OrNull(tds, 1),
                 posto           |-> OrNull(tds, 2),
                 tipo_posto      |-> OrNull(tds, 3),
                 horas           |-> OrNull(tds, 4),
                 precipitacao_mm |-> parseNumberBR(OrNull(tds, 5))] >>

parseTabela(doc, containerSel, regiao) ==
    LET tables == doc[containerSel]
        trs    == Flatten(tables)
    IN  IF Len(tables) = 0 THEN << >>
        ELSE Flatten([i \in 1..Len(trs) |-> Linha(trs[i], regiao)])

extrairAbasDoHTML(doc) ==
    Flatten([k \in 1..Len(tabs) |-> parseTabela(doc, tabs[k].id, tabs[k].nome)])

-----------------------------------------------------------------------------
(* Serialised artifacts *)

\* a file the run has not written
OldFile == [kind |-> "old"]

\* the records paired with the identifier computed for today
JsonIdHoje(id, ds) == [kind |-> "json", id |-> idHoje, dados |-> ds]

\* JSON.stringify({ id, dados }, null, 2)
JsonIdDados(id, ds) == [kind |-> "json", id |-> id, dados |-> ds]

\* Papa.unparse(dados, { newline: "\n" }): a header line, then one line per row
PapaUnparse(ds) ==
    [kind   |-> "csv",
     header |-> << "regiao", "municipio", "posto", "tipo_posto", "horas",
                   "precipitacao_mm" >>,
     lines  |-> [i \in 1..Len(ds) |->
                    << ds[i].regiao, ds[i].municipio, ds[i].posto,
                       ds[i].tipo_posto, ds[i].horas, ds[i].precipitacao_mm >>]]

-----------------------------------------------------------------------------
(* The network as the bulletin run sees it *)

Vias == {"direct", "mirror_https", "mirror_http"}

\* response statuses for which res.ok is false
StatusNaoOk == {404, 503}

Pending == [k |-> "pending"]

Request(id, v) == [id |-> id, via |-> v, reply |-> Pending]

\* the request being awaited is answered with reply
Answered(reply) == [net EXCEPT ![Len(net)].reply = reply]

Awaiting == pc = "await" /\ net[Len(net)].reply = Pending

\* the loop variable id
Id == candidatos[ci]

-----------------------------------------------------------------------------
(* Errors and console lines *)

\* the Error thrown for a response whose ok is false
ErroStatus(v, status) == [k |-> "status", via |-> v, status |-> status]

\* the rejection of fetch() or of res.text(): no usable response
ErroRede(v) == [k |-> "rejected", via |-> v]

\* Error(`Proxy falhou (https=${r1.status}, http=${r2.status}) para id ${id}`)
ErroProxy(s1, s2) == [k |-> "proxy", https |-> s1, http |-> s2]

\* Error("Nao foi possivel obter dados do boletim (nenhum candidato retornou
\* linhas)."): a fixed text, which names no identifier and no cause
ErroFinal ==
    [message |-> "nenhum candidato retornou linhas", ids |-> {}, causas |-> << >>]

SemErro == [message |-> "", ids |-> {}, causas |-> << >>]

WarnDireto(id, e) == [line |-> "Direto falhou", id |-> id, causa |-> e]

WarnSemLinhas(id) == [line |-> "sem linhas", id |-> id, causa |-> Null]

WarnFalha(id, e) == [line |-> "Falha no ID", id |-> id, causa |-> e]

-----------------------------------------------------------------------------
(* The bulletin run *)

\* the mirror asked with the http:// inner scheme before the https:// one
EstrategiasTrocadas ==
    IF script = "inmet" THEN << "direct", "mirror_http", "mirror_https" >>
    ELSE << "direct", "mirror_http" >>

\* the transport strategies of one candidate, in the order the script tries them
Estrategias ==
    IF script = "inmet" THEN << "direct", "mirror_https", "mirror_http" >>
    ELSE << "direct", "mirror_http" >>

\* the candidates in ascending order
CandidatosOrdenados(id) == << id - 1, id, id + 1 >>

\* const candidatos = [idHoje, idHoje - 1, idHoje + 1]
Candidatos(id) == << id, id - 1, id + 1 >>

\* main, up to the first await: resolve the identifier, build the candidates
\* and call fetchHtmlDireto for the first one
Resolve ==
    /\ pc = "start"
    /\ idHoje' = idDoDia(<< >>)
    /\ candidatos' = Candidatos(idHoje')
    /\ ci' = 1
    /\ via' = Estrategias[1]
    /\ net' = << Request(idHoje', Estrategias[1]) >>
    /\ pc' = "await"
    /\ UNCHANGED << numVars, apiVars, inputVars, r1, html, dados, rendered, latestJson, latestCsv,
                    console, err, exitCode >>

\* the loop restarting with the same candidate
MesmoIndice(i) == i

\* the step of "for (const id of candidatos)"
ProximoIndice(i) == i + 1

\* any extraction accepted, empty or not
SempreTemLinhas(ds) == TRUE

\* if (dados.length > 0)
TemLinhas(ds) == Len(ds) > 0

\* the end of one iteration of "for (const id of candidatos)" that did not
\* exit: the next candidate is fetched directly, or the loop ends and main
\* throws, which the top-level catch turns into exit status 1
ProximoCandidato(netNow, lines) ==
    /\ console' = console \o lines
    /\ IF ProximoIndice(ci) <= Len(candidatos)
       THEN /\ ci' = ProximoIndice(ci)
            /\ via' = Estrategias[1]
            /\ net' = Append(netNow, Request(candidatos[ProximoIndice(ci)], Estrategias[1]))
            /\ pc' = "await"
            /\ UNCHANGED << err, exitCode >>
       ELSE /\ pc' = "failed"
            /\ err' = ErroFinal
            /\ exitCode' = 1
            /\ net' = netNow
            /\ UNCHANGED << ci, via >>

\* the file kept as the first body saved
HtmlDoPrimeiro(body) ==
    IF rendered.kind = "old" THEN [kind |-> "html", body |-> body] ELSE rendered

\* saveText("data/rendered.html", html)
HtmlSalvo(body) == [kind |-> "html", body |-> body]

\* the loop body once html is known: save it, extract, and either write the
\* outputs and exit 0 or go on with the next candidate
Recebido(netNow, body, lines) ==
    LET ds == extrairAbasDoHTML(body.doc)
    IN  /\ html' = body
        /\ rendered' = HtmlSalvo(body)
        /\ dados' = ds
        /\ IF TemLinhas(ds)
           THEN /\ latestJson' = JsonIdDados(Id, ds)
                /\ latestCsv' = PapaUnparse(ds)
                /\ pc' = "done"
                /\ exitCode' = 0
                /\ net' = netNow
                /\ console' = console \o lines
                /\ UNCHANGED << ci, via, err >>
           ELSE /\ ProximoCandidato(netNow, lines \o << WarnSemLinhas(Id) >>)
                /\ UNCHANGED << latestJson, latestCsv >>

\* the inner catch: fetchHtmlDireto threw e, fetchHtmlProxy is called and
\* issues its first request
TentaProxy(netNow, e) ==
    /\ via' = Estrategias[2]
    /\ net' = Append(netNow, Request(Id, Estrategias[2]))
    /\ console' = Append(console, WarnDireto(Id, e))
    /\ UNCHANGED << pc, ci, html, dados, rendered, latestJson, latestCsv, err, exitCode >>

\* the outer catch: the iteration threw e
FalhaNoId(netNow, lines, e) ==
    /\ ProximoCandidato(netNow, lines \o << WarnFalha(Id, e) >>)
    /\ UNCHANGED << html, dados, rendered, latestJson, latestCsv >>

\* the awaited request gets a response with ok status whose body doc is read
RespondeOk(doc) ==
    /\ Awaiting
    /\ Recebido(Answered([k |-> "ok", doc |-> doc]),
                [id |-> Id, via |-> via, doc |-> doc], << >>)
    /\ UNCHANGED << numVars, apiVars, inputVars, idHoje, candidatos, r1 >>

\* the awaited request gets a response whose ok is false: fetchHtmlDireto
\* throws and the inner catch calls fetchHtmlProxy; fetchHtmlProxy goes on to
\* its next address if it has one (keeping r1 for the message) and throws
\* otherwise
RespondeStatus(status) ==
    /\ Awaiting
    /\ LET netNow == Answered([k |-> "status", status |-> status])
           pos    == CHOOSE i \in 1..Len(Estrategias) : Estrategias[i] = via
       IN  IF pos = 1
           THEN /\ TentaProxy(netNow, ErroStatus(via, status))
                /\ UNCHANGED r1
           ELSE IF pos < Len(Estrategias)
           THEN /\ r1' = status
                /\ via' = Estrategias[pos + 1]
                /\ net' = Append(netNow, Request(Id, Estrategias[pos + 1]))
                /\ UNCHANGED << pc, ci, html, dados, rendered, latestJson,
                                latestCsv, console, err, exitCode >>
           ELSE /\ FalhaNoId(netNow, << >>,
                             IF script = "inmet" THEN ErroProxy(r1, status)
                             ELSE ErroStatus(via, status))
                /\ UNCHANGED r1
    /\ UNCHANGED << numVars, apiVars, inputVars, idHoje, candidatos >>

\* the awaited request rejects: fetch() itself (connection failure, no
\* response) or, after an ok status, the read of the body by res.text(); both
\* rejections leave fetchHtmlDireto / fetchHtmlProxy at the same await
RespondeRejeita ==
    /\ Awaiting
    /\ LET netNow == Answered([k |-> "rejected"])
       IN  IF via = "direct"
           THEN TentaProxy(netNow, ErroRede(via))
           ELSE FalhaNoId(netNow, << >>, ErroRede(via))
    /\ UNCHANGED << numVars, apiVars, inputVars, idHoje, candidatos, r1 >>

\* the remote end never answers the awaited request; fetch() is called with
\* no signal and no timer, so nothing ever settles the awaited promise
NuncaResponde ==
    /\ Awaiting
    /\ net' = Answered([k |-> "never"])
    /\ UNCHANGED << numVars, apiVars, inputVars, pc, idHoje, candidatos, ci, via, r1, html, dados,
                    rendered, latestJson, latestCsv, console, err, exitCode >>

-----------------------------------------------------------------------------
(* The station-API run: values.  A JSON object is a function from the names *)
(* of the fields it has to their texts; a field that is null is left out.   *)

LowerCase ==
    << "a", "b", "c", "d", "e", "f", "g", "h", "i", "j", "k", "l", "m", "n", "o",
       "p", "q", "r", "s", "t", "u", "v", "w", "x", "y", "z" >>

UpperCase ==
    << "A", "B", "C", "D", "E", "F", "G", "H", "I", "J", "K", "L", "M", "N", "O",
       "P", "Q", "R", "S", "T", "U", "V", "W", "X", "Y", "Z" >>

\* s.toUpperCase()
ToUpperCase(s) ==
    [i \in 1..Len(s) |->
        IF \E k \in 1..26 : LowerCase[k] = s[i]
        THEN UpperCase[CHOOSE k \in 1..26 : LowerCase[k] = s[i]]
        ELSE s[i]]

\* o.k1 || o.k2 || ... || dflt: the first field that is there and not empty
OrChain(o, keys, dflt) ==
    LET hits == {i \in 1..Len(keys) : keys[i] \in DOMAIN o /\ o[keys[i]] # << >>}
    IN  IF hits = {} THEN dflt
        ELSE o[keys[CHOOSE i \in hits : \A j \in hits : i <= j]]

\* o.k1 ?? o.k2 ?? ... ?? null: the first field that is there, empty or not;
\* << v >> when there is one, << >> for null
NullishChain(o, keys) ==
    LET hits == {i \in 1..Len(keys) : keys[i] \in DOMAIN o}
    IN  IF hits = {} THEN << >>
        ELSE << o[keys[CHOOSE i \in hits : \A j \in hits : i <= j]] >>

\* Number(s) of a text without exponent part: white space around is dropped,
\* "" is 0, and the whole of the rest has to be [+-](digits[.digits] | .digits)
ToNumber(s) ==
    LET t    == Trim(s)
        sgn  == t # << >> /\ t[1] \in {"+", "-"}
        neg  == t # << >> /\ t[1] = "-"
        u    == IF sgn THEN Tail(t) ELSE t
        int  == DigitPrefix(u)
        rest == SubSeq(u, Len(int) + 1, Len(u))
        frac == IF rest # << >> /\ rest[1] = "." THEN DigitPrefix(Tail(rest)) ELSE << >>
        used == Len(int) + (IF rest # << >> /\ rest[1] = "." THEN 1 + Len(frac) ELSE 0)
    IN  IF t = << >> THEN Decimal(FALSE, 0, 0)
        ELSE IF u = << "I", "n", "f", "i", "n", "i", "t", "y" >> THEN Infinito(neg)
        ELSE IF (int = << >> /\ frac = << >>) \/ used # Len(u) THEN NaN
        ELSE Decimal(neg, DigitsValue(int \o frac), Len(frac))

\* numberOrNull(v), v being << >> (null, undefined) or << text >>
numberOrNull(v) ==
    IF v = << >> \/ v[1] = << >> THEN Null
    ELSE LET n == ToNumber(ReplaceFirst(v[1], ",", "."))
         IN  IF IsFinite(n) THEN n ELSE Null

RECURSIVE NatToString(_)
\* String(n) for a natural number
NatToString(n) ==
    IF n < 10 THEN << DigitChars[n + 1] >>
    ELSE NatToString(n \div 10) \o << DigitChars[(n % 10) + 1] >>

RECURSIVE ZeroPad(_, _)
\* s.padStart(n, "0")
ZeroPad(s, n) == IF Len(s) >= n THEN s ELSE ZeroPad(<< "0" >> \o s, n)

\* String(x) of a finite number in plain decimal notation
NumberToString(x) ==
    LET ds == ZeroPad(NatToString(x.m), x.e + 1)
        ip == SubSeq(ds, 1, Len(ds) - x.e)
        fp == SubSeq(ds, Len(ds) - x.e + 1, Len(ds))
    IN  (IF x.neg THEN << "-" >> ELSE << >>) \o ip
        \o (IF x.e > 0 THEN << "." >> \o fp ELSE << >>)

\* isoDiaUTC(d, deltaDias), d in minutes since the epoch
isoDiaUTC(d, deltaDias) ==
    LET c == CivilFromDays((d \div MinPerDay) + deltaDias)
    IN  Pad4(c.y) \o << "-" >> \o Pad2(c.m) \o << "-" >> \o Pad2(c.d)

\* String(hr).padStart(4, "0").replace(/(\d{2})(\d{2})/, "$1:$2")
HoraComDoisPontos(hr) ==
    LET s    == ZeroPad(hr, 4)
        hits == {k \in 1..(Len(s) - 3) : \A i \in k..(k + 3) : IsDigit(s[i])}
    IN  IF hits = {} THEN s
        ELSE LET k == CHOOSE i \in hits : \A j \in hits : i <= j
             IN  SubSeq(s, 1, k + 1) \o << ":" >> \o SubSeq(s, k + 2, Len(s))

\* the default of tipo ("automatica" with an acute accent on its second a)
Automatica == << "a", "u", "t", "o", "m", "a", "t", "i", "c", "a" >>

INMET == << "I", "N", "M", "E", "T" >>

-----------------------------------------------------------------------------
(* The station-API run: the station reference set and the join *)

\* stations kept whatever their federative unit
QualquerUF(s, uf) == TRUE

\* the predicate of stations.filter: (s.UF || s.DC_UF || "").toUpperCase() === UF
MesmaUF(s, uf) == ToUpperCase(OrChain(s, << "UF", "DC_UF" >>, << >>)) = uf

\* String(s.CD_ESTACAO || s.CD_EST || s.CD_WIGOS || s.CD_OMM || s.CD_SIRED || "").trim()
CodigoDaEstacao(s) ==
    Trim(OrChain(s, << "CD_ESTACAO", "CD_EST", "CD_WIGOS", "CD_OMM", "CD_SIRED" >>, << >>))

\* the value stationByCode.set stores for station s
Estacao(s, uf) ==
    LET code == CodigoDaEstacao(s)
    IN  [code |-> code,
         nome |-> OrChain(s, << "DC_NOME", "NOME", "NM_ESTACAO" >>, code),
         uf   |-> OrChain(s, << "UF", "DC_UF" >>, uf),
         lat  |-> numberOrNull(
                      LET v == OrChain(s, << "VL_LATITUDE", "LATITUDE", "LAT" >>, << >>)
                      IN  IF v = << >> THEN << >> ELSE << v >>),
         lon  |-> numberOrNull(
                      LET v == OrChain(s, << "VL_LONGITUDE", "LONGITUDE", "LON" >>, << >>)
                      IN  IF v = << >> THEN << >> ELSE << v >>),
         tipo |-> OrChain(s, << "TP_ESTACAO", "TIPO" >>, Automatica)]

\* the Map built from the stations of the unit uf: a station without a code is
\* skipped, a later station replaces an earlier one of the same code
StationByCode(sts, uf) ==
    LET kept  == {i \in 1..Len(sts) : MesmaUF(sts[i], uf) /\ CodigoDaEstacao(sts[i]) # << >>}
        codes == {CodigoDaEstacao(sts[i]) : i \in kept}
    IN  [c \in codes |->
            LET last == CHOOSE i \in kept :
                            /\ CodigoDaEstacao(sts[i]) = c
                            /\ \A j \in kept : CodigoDaEstacao(sts[j]) = c => j <= i
            IN  Estacao(sts[last], uf)]

\* String(r.CD_ESTACAO || r.CD_WIGOS || r.CD_OMM || "").trim()
CodigoDaLinha(r) == Trim(OrChain(r, << "CD_ESTACAO", "CD_WIGOS", "CD_OMM" >>, << >>))

\* the timestamp of a row; << >> is null
Timestamp(r) ==
    LET dt == OrChain(r, << "DT_MEDICAO" >>, << >>)
        hr == OrChain(r, << "HR_MEDICAO" >>, << >>)
    IN  IF dt # << >> /\ hr # << >> THEN dt \o << " " >> \o HoraComDoisPontos(hr)
        ELSE dt

\* the record pushed for row r; << >> when the row has no station in map
Registro(r, map) ==
    LET cod == CodigoDaLinha(r)
    IN  IF cod \notin DOMAIN map THEN << >>
        ELSE LET st == map[cod]
             IN  << [source          |-> INMET,
                     regiao          |-> << >>,
                     municipio       |-> OrChain(r, << "DC_NOME", "MUNICIPIO" >>, << >>),
                     posto           |-> IF st.nome # << >> THEN st.nome ELSE cod,
                     tipo_posto      |-> IF st.tipo # << >> THEN st.tipo ELSE Automatica,
                     horas           |-> Timestamp(r),
                     precipitacao_mm |-> numberOrNull(NullishChain(r,
                                             << "PRELIQ_TOT", "PRECI_TOT", "CHUVA",
                                                "PRECIPITACAO", "PREC" >>)),
                     station_code    |-> cod,
                     lat             |-> st.lat,
                     lon             |-> st.lon] >>

\* out after the loop over rows
Juncao(rs, map) == Flatten([i \in 1..Len(rs) |-> Registro(rs[i], map)])

\* `${r.station_code}::${r.horas || ""}::${r.precipitacao_mm ?? ""}`
key(r) ==
    r.station_code \o << ":", ":" >> \o r.horas \o << ":", ":" >>
    \o (IF r.precipitacao_mm.t = "null" THEN << >> ELSE NumberToString(r.precipitacao_mm))

\* one pass that removes only the first record having a later record of its key
DedupUmaVez(recs) ==
    LET dups == {i \in 1..Len(recs) : \E j \in (i + 1)..Len(recs) : key(recs[j]) = key(recs[i])}
    IN  IF dups = {} THEN recs
        ELSE LET d == CHOOSE i \in dups : \A j \in dups : i <= j
             IN  SubSeq(recs, 1, d - 1) \o SubSeq(recs, d + 1, Len(recs))

\* one record per key, the first one of that key
DedupPrimeiro(recs) ==
    LET firsts == {i \in 1..Len(recs) : \A j \in 1..(i - 1) : key(recs[j]) # key(recs[i])}
        nth(n) == CHOOSE i \in firsts : Cardinality({j \in firsts : j < i}) = n - 1
    IN  [n \in 1..Cardinality(firsts) |-> recs[nth(n)]]

\* Array.from(new Map(out.map(x => [key(x), x])).values()): one record per key,
\* at the place of the first record of that key, holding the last one
Dedup(recs) ==
    LET firsts == {i \in 1..Len(recs) : \A j \in 1..(i - 1) : key(recs[j]) # key(recs[i])}
        nth(n) == CHOOSE i \in firsts : Cardinality({j \in firsts : j < i}) = n - 1
        last(i) == CHOOSE j \in 1..Len(recs) :
                       /\ key(recs[j]) = key(recs[i])
                       /\ \A l \in 1..Len(recs) : key(recs[l]) = key(recs[i]) => l <= j
    IN  [n \in 1..Cardinality(firsts) |-> recs[last(nth(n))]]

\* one field of a CSV line; v is a text (<< >> for null) or a number
CampoCSV(v, isNumber) ==
    IF isNumber THEN (IF v.t = "null" THEN << >> ELSE NumberToString(v))
    ELSE LET dobrado == Flatten([i \in 1..Len(v) |->
                            IF v[i] = "\"" THEN << "\"", "\"" >> ELSE << v[i] >>])
         IN  IF \E i \in 1..Len(v) : v[i] \in {",", "\"", "\n"}
             THEN << "\"" >> \o dobrado \o << "\"" >>
             ELSE dobrado

RECURSIVE Join(_, _)
\* ss.join(sep)
Join(ss, sep) ==
    IF ss = << >> THEN << >>
    ELSE IF Len(ss) = 1 THEN ss[1]
    ELSE ss[1] \o sep \o Join(Tail(ss), sep)

CsvHeaderLine ==
    << "s", "o", "u", "r", "c", "e", ",", "r", "e", "g", "i", "a", "o", ",", "m",
       "u", "n", "i", "c", "i", "p", "i", "o", ",", "p", "o", "s", "t", "o", ",", "t",
       "i", "p", "o", "_", "p", "o", "s", "t", "o", ",", "h", "o", "r", "a", "s", ",",
       "p", "r", "e", "c", "i", "p", "i", "t", "a", "c", "a", "o", "_", "m", "m", ",",
       "s", "t", "a", "t", "i", "o", "n", "_", "c", "o", "d", "e", ",", "l", "a", "t",
       ",", "l", "o", "n" >>

toCSV(arr) ==
    LET linha(r) ==
            Join(<< CampoCSV(r.source, FALSE), CampoCSV(r.regiao, FALSE),
                    CampoCSV(r.municipio, FALSE), CampoCSV(r.posto, FALSE),
                    CampoCSV(r.tipo_posto, FALSE), CampoCSV(r.horas, FALSE),
                    CampoCSV(r.precipitacao_mm, TRUE), CampoCSV(r.station_code, FALSE),
                    CampoCSV(r.lat, TRUE), CampoCSV(r.lon, TRUE) >>, << "," >>)
    IN  Join(<< CsvHeaderLine >> \o [i \in 1..Len(arr) |-> linha(arr[i])], << "\n" >>)
        \o << "\n" >>

-----------------------------------------------------------------------------
(* The station-API run: steps *)

\* process.env.UF || "RN", upper-cased
UFDe(env) == ToUpperCase(IF env # << >> THEN env ELSE << "R", "N" >>)

\* Math.max(1, parseInt(process.env.DIAS || "3", 10)) for a text of digits
DIASDe(env) ==
    LET n == DigitsValue(DigitPrefix(IF env # << >> THEN env ELSE << "3" >>))
    IN  IF n > 1 THEN n ELSE 1

UrlEstacoes == [path |-> "/estacoes", data_inicial |-> << >>, data_final |-> << >>]

\* `${BASE}/estacoes/T?data_inicial=${data_inicial}&data_final=${data_final}`
UrlDados(hoje, dias) ==
    [path         |-> "/estacoes/T",
     data_inicial |-> isoDiaUTC(hoje, 1 - dias),
     data_final   |-> isoDiaUTC(hoje, 0)]

ApiAwaiting(p) == apc = p /\ reqs[Len(reqs)].reply = Pending

ApiAnswered(reply) == [reqs EXCEPT ![Len(reqs)].reply = reply]

\* the run up to its first await: getJSON(`${BASE}/estacoes`)
ApiStart ==
    /\ apc = "start"
    /\ reqs' = << [url |-> UrlEstacoes, reply |-> Pending] >>
    /\ apc' = "estacoes"
    /\ UNCHANGED << numVars, now, bulletinVars, UF, DIAS, stations, stationByCode, rows, out, uniq,
                    inmetJson, apiJson, apiCsv, apiExit >>

\* /estacoes answers with the array sts: the reference set is built and the
\* series of the window is asked for
EstacoesOk(sts) ==
    /\ ApiAwaiting("estacoes")
    /\ stations' = sts
    /\ stationByCode' = StationByCode(sts, UF)
    /\ reqs' = Append(ApiAnswered([k |-> "ok"]),
                      [url |-> UrlDados(now, DIAS), reply |-> Pending])
    /\ apc' = "dados"
    /\ UNCHANGED << numVars, now, bulletinVars, UF, DIAS, rows, out, uniq, inmetJson, apiJson,
                    apiCsv, apiExit >>

\* /estacoes/T answers with the array rs: join, dedup and the three files
DadosOk(rs) ==
    /\ ApiAwaiting("dados")
    /\ rows' = rs
    /\ out' = Juncao(rs, stationByCode)
    /\ uniq' = Dedup(out')
    /\ inmetJson' = [kind |-> "json", registros |-> uniq']
    /\ apiJson' = [kind |-> "json", registros |-> uniq']
    /\ apiCsv' = [kind |-> "csv", text |-> toCSV(uniq')]
    /\ reqs' = ApiAnswered([k |-> "ok"])
    /\ apc' = "done"
    /\ apiExit' = 0
    /\ UNCHANGED << numVars, now, bulletinVars, UF, DIAS, stations, stationByCode >>

\* a run that goes on without the stations when /estacoes fails
ApiErroTolerante(reply) ==
    /\ IF apc = "estacoes"
       THEN /\ reqs' = Append(ApiAnswered(reply),
                              [url |-> UrlDados(now, DIAS), reply |-> Pending])
            /\ apc' = "dados"
            /\ UNCHANGED apiExit
       ELSE /\ reqs' = ApiAnswered(reply)
            /\ apc' = "failed"
            /\ apiExit' = 1
    /\ UNCHANGED << numVars, now, bulletinVars, UF, DIAS, stations, stationByCode, rows,
                    out, uniq, inmetJson, apiJson, apiCsv >>

\* the catch of the run: console.error and process.exit(1)
ApiErro(reply) ==
    /\ reqs' = ApiAnswered(reply)
    /\ apc' = "failed"
    /\ apiExit' = 1
    /\ UNCHANGED << numVars, now, bulletinVars, UF, DIAS, stations, stationByCode, rows, out, uniq,
                    inmetJson, apiJson, apiCsv >>

\* either request gets a response whose ok is false: getJSON throws
ApiRespondeStatus(status) ==
    /\ ApiAwaiting("estacoes") \/ ApiAwaiting("dados")
    /\ ApiErro([k |-> "status", status |-> status])

\* either request rejects: fetch() itself, or r.json() on a body that is not JSON
ApiRespondeRejeita ==
    /\ ApiAwaiting("estacoes") \/ ApiAwaiting("dados")
    /\ ApiErro([k |-> "rejected"])

-----------------------------------------------------------------------------
(* Inputs *)

TabIds == {tabs[k].id : k \in 1..Len(tabs)}

Natal == << "N", "a", "t", "a", "l" >>

Caico == << "C", "a", "i", "c", "o" >>

PostoX == << "P", "o", "s", "t", "o", " ", "X" >>

Convencional == << "C", "o", "n", "v" >>

DezHoras == << "1", "0", ":", "0", "0" >>

\* a page with none of the four containers (not published yet, or an error page
\* served with an ok status)
DocSemTabelas == [id \in TabIds |-> << >>]

\* a page with rain: a full row with untidy white space, a tr without td, a row
\* of two cells, and a row in another tab
DocChuva ==
    [id \in TabIds |->
        CASE id = "agreste_potiguar" ->
                 << << << << " ", "\n" >> \o Natal \o << " " >>, PostoX, Convencional,
                          DezHoras, << "1", "2", ",", "5" >> >>,
                       << >>,
                       << Caico, << "P", "2" >> >> >> >>
          [] id = "oeste_potiguar" ->
                 << << << Caico, PostoX, Convencional, DezHoras,
                          << "1", ".", "2", "3", "4", ",", "5" >> >> >> >>
          [] OTHER -> << >>]

\* a page with one table holding one row, in the third tab
DocSeco ==
    [id \in TabIds |->
        IF id = "leste_potiguar"
        THEN << << << Natal, PostoX, Convencional, DezHoras, << "0", ",", "0" >> >> >> >>
        ELSE << >>]

\* a page whose table lists the same post, hour and amount twice
DocRepetido ==
    [id \in TabIds |->
        IF id = "central_potiguar"
        THEN << << << Caico, PostoX, Convencional, DezHoras, << "3", ",", "0" >> >>,
                   << Caico, PostoX, Convencional, DezHoras, << "3", ",", "0" >> >> >> >>
        ELSE << >>]

Docs == {DocSemTabelas, DocChuva, DocSeco, DocRepetido}

\* the day numbers of 2025-10-27 and 2028-02-20, the first days of the windows
FirstDay == DaysFromCivil(2025, 10, 27)

LeapFirstDay == DaysFromCivil(2028, 2, 20)

Days == (FirstDay..(FirstDay + MaxDay)) \cup (LeapFirstDay..(LeapFirstDay + MaxDay))

\* minutes after 00:00 UTC: midnight, just before and at 03:00, noon, 23:59
TimesOfDay == {0, 179, 180, 720, 1439}

Instants == {d * MinPerDay + m : d \in Days, m \in TimesOfDay}

FmtDMY(c) == Pad2(c.d) \o << "/" >> \o Pad2(c.m) \o << "/" >> \o Pad4(c.y)

FmtYMD(c) == Pad4(c.y) \o << "-" >> \o Pad2(c.m) \o << "-" >> \o Pad2(c.d)

\* a FORCED_DATE in neither accepted form
Hoje == << "h", "o", "j", "e" >>

ForcedDates ==
    {FmtDMY(CivilFromDays(d)) : d \in Days} \cup {FmtYMD(CivilFromDays(d)) : d \in Days}

HostZones == {-180, 0, 540}

\* 2025-11-03 13:00 UTC (10:00 in Fortaleza) and 2025-11-04 01:30 UTC (22:30 of
\* 2025-11-03 in Fortaleza)
RunInstants == {29369580, 29370330}

NoBody == [id |-> 0, via |-> "none", doc |-> DocSemTabelas]

\* the state of a run before main starts
Fresh ==
    /\ pc = "start"
    /\ idHoje = 0
    /\ candidatos = << >>
    /\ ci = 0
    /\ via = "none"
    /\ r1 = 0
    /\ net = << >>
    /\ html = NoBody
    /\ dados = << >>
    /\ rendered = OldFile
    /\ latestJson = OldFile
    /\ latestCsv = OldFile
    /\ console = << >>
    /\ err = SemErro
    /\ exitCode = -1

\* a station of RN, with the usual fields and a decimal comma
EstNatal ==
    [UF           |-> << "R", "N" >>,
     CD_ESTACAO   |-> << "A", "3", "0", "1" >>,
     DC_NOME      |-> << "N", "A", "T", "A", "L" >>,
     VL_LATITUDE  |-> << "-", "5", ",", "9", "1" >>,
     VL_LONGITUDE |-> << "-", "3", "5", ".", "2" >>,
     TP_ESTACAO   |-> << "A", "u", "t", "o", "m", "a", "t", "i", "c", "a" >>]

\* a station of RN spelt in lower case under DC_UF, its code padded, under CD_WIGOS
EstCaico ==
    [DC_UF      |-> << "r", "n" >>,
     CD_WIGOS   |-> << " ", "A", "3", "1", "6", " " >>,
     CD_ESTACAO |-> << >>]

\* a station of another unit
EstPatos ==
    [UF         |-> << "P", "B" >>,
     CD_ESTACAO |-> << "A", "3", "1", "0" >>,
     DC_NOME    |-> << "P", "A", "T", "O", "S" >>]

\* a station of RN with no code at all
EstSemCodigo ==
    [UF      |-> << "R", "N" >>,
     DC_NOME |-> << "M", "A", "C", "A", "U" >>]

\* a second entry for the code of EstNatal
EstNatalDeNovo ==
    [UF     |-> << "R", "N" >>,
     CD_EST |-> << "A", "3", "0", "1" >>,
     NOME   |-> << "N", "A", "T", "A", "L", " ", "I", "I" >>]

Estacoes == {EstNatal, EstCaico, EstPatos, EstSemCodigo, EstNatalDeNovo}

\* an hourly row of EstNatal
LinhaNatal ==
    [CD_ESTACAO |-> << "A", "3", "0", "1" >>,
     DC_NOME    |-> << "N", "A", "T", "A", "L" >>,
     DT_MEDICAO |-> << "2", "0", "2", "5", "-", "1", "1", "-", "0", "3" >>,
     HR_MEDICAO |-> << "9", "0", "0" >>,
     CHUVA      |-> << "1", ",", "2" >>]

\* a row of EstCaico: padded code under CD_WIGOS, an empty first rain field
LinhaCaico ==
    [CD_WIGOS   |-> << "A", "3", "1", "6", " " >>,
     DT_MEDICAO |-> << "2", "0", "2", "5", "-", "1", "1", "-", "0", "3" >>,
     PRELIQ_TOT |-> << >>,
     CHUVA      |-> << "3" >>]

\* a row of the station of the other unit
LinhaPatos ==
    [CD_ESTACAO |-> << "A", "3", "1", "0" >>,
     DT_MEDICAO |-> << "2", "0", "2", "5", "-", "1", "1", "-", "0", "3" >>,
     HR_MEDICAO |-> << "1", "0", "0", "0" >>,
     CHUVA      |-> << "0", ".", "4" >>]

\* a row with no station code
LinhaSemCodigo ==
    [DT_MEDICAO |-> << "2", "0", "2", "5", "-", "1", "1", "-", "0", "3" >>,
     HR_MEDICAO |-> << "1", "0", "0", "0" >>,
     CHUVA      |-> << "7" >>]

\* a row of a station /estacoes does not list
LinhaDesconhecida ==
    [CD_OMM     |-> << "8", "2", "5", "9", "9" >>,
     DT_MEDICAO |-> << "2", "0", "2", "5", "-", "1", "1", "-", "0", "3" >>,
     HR_MEDICAO |-> << "1", "0", "0", "0" >>,
     PREC       |-> << "x" >>]

Linhas == {LinhaNatal, LinhaCaico, LinhaPatos, LinhaSemCodigo, LinhaDesconhecida}

\* a second report of the hour of LinhaNatal: the same station, hour and amount
\* spelt otherwise, another municipality name
LinhaNatalBis ==
    [CD_ESTACAO |-> << "A", "3", "0", "1" >>,
     MUNICIPIO  |-> << "P", "A", "R", "N" >>,
     DT_MEDICAO |-> << "2", "0", "2", "5", "-", "1", "1", "-", "0", "3" >>,
     HR_MEDICAO |-> << "0", "9", "0", "0" >>,
     PRECI_TOT  |-> << "1", ".", "2", "0" >>]

\* a later hour of the station of LinhaNatal, with no amount
LinhaNatalTarde ==
    [CD_ESTACAO |-> << "A", "3", "0", "1" >>,
     DC_NOME    |-> << "N", "A", "T", "A", "L" >>,
     DT_MEDICAO |-> << "2", "0", "2", "5", "-", "1", "1", "-", "0", "3" >>,
     HR_MEDICAO |-> << "1", "5", "0", "0" >>]

\* rows of listed stations, some of them reports of the same station and hour
LinhasRepetidas == {LinhaNatal, LinhaNatalBis, LinhaNatalTarde, LinhaCaico}

\* the longest array of repeated reports /estacoes/T answers with
MaxRecs == 4

\* the longest array /estacoes answers with
MaxStations == 2

\* the longest array /estacoes/T answers with
MaxRows == 2

\* the arrays of at most n elements of S
ArraysOf(S, n) == UNION {[1..k -> S] : k \in 0..n}

\* values of process.env.UF: unset, and a unit in lower case
EnvUF == {<< >>, << "p", "b" >>}

\* values of process.env.DIAS: unset, and "0"
EnvDIAS == {<< >>, << "0" >>}

\* the state of the station-API run before it starts
ApiFresh ==
    /\ apc = "start"
    /\ reqs = << >>
    /\ stations = << >>
    /\ stationByCode = << >>
    /\ rows = << >>
    /\ out = << >>
    /\ uniq = << >>
    /\ inmetJson = OldFile
    /\ apiJson = OldFile
    /\ apiCsv = OldFile
    /\ apiExit = -1

\* the station-API run left out: its configuration is the default one
ApiIdle ==
    /\ UF = UFDe(<< >>)
    /\ DIAS = DIASDe(<< >>)
    /\ ApiFresh

\* the shapes of a body row: no cell, two cells, four cells the second of
\* which is empty, the five expected cells, six cells
FormasDeLinha ==
    { << >>,
      << Caico, << "P", "2" >> >>,
      << Natal, << " " >>, Convencional, DezHoras >>,
      << << " " >> \o Natal, PostoX, Convencional, DezHoras, << "1", "2", ",", "5" >> >>,
      << Caico, PostoX, Convencional, DezHoras, << "0", ",", "4" >>, << "a" >> >> }

\* the most body rows of a table of the pages of DocsDeFormas
MaxTr == 2

\* what a page has under one tab: no table, or one table of at most MaxTr rows
AbasDeFormas == {<< >>} \cup {<< t >> : t \in ArraysOf(FormasDeLinha, MaxTr)}

\* what a page has under one tab: no table, or one table of at most one row
AbasDeUmaLinha == {<< >>} \cup {<< t >> : t \in ArraysOf(FormasDeLinha, 1)}

\* pages whose first tab holds up to MaxTr rows of every shape and whose last
\* tab up to one; the second tab holds one full row and the third tab nothing
DocsDeFormas ==
    {[id \in TabIds |->
         CASE id = "agreste_potiguar" -> a
           [] id = "central_potiguar" ->
                  << << << Natal, PostoX, Convencional, DezHoras, << "3" >> >> >> >>
           [] id = "oeste_potiguar" -> o
           [] OTHER -> << >>]
     : a \in AbasDeFormas, o \in AbasDeUmaLinha}

\* the characters raw values are made of: digits, both separators, a sign, a
\* letter, a blank
Alfabeto == {"1", "0", ".", ",", "-", "a", " "}

\* the longest raw text made of Alfabeto
MaxLen == 3

\* texts the claims and the code's branches name
TextosNotaveis ==
    { << "1", ".", "2", "3", "4", ",", "5", "6" >>,
      << "1", ".", "2", "3", "4", ",", "5" >>,
      << "1", "2", ",", "5" >>,
      << "I", "n", "f", "i", "n", "i", "t", "y" >>,
      << "-", "I", "n", "f", "i", "n", "i", "t", "y" >>,
      << "N", "a", "N" >>,
      << "n", "u", "l", "l" >> }

\* the raw values: missing or null, and every text
RawValues ==
    {<< >>} \cup {<< t >> : t \in ArraysOf(Alfabeto, MaxLen) \cup TextosNotaveis}

\* the text a raw value holds; a missing cell is undefined
TextoDe(v) == IF v = << >> THEN Undefined ELSE v[1]

\* no value is being normalised
NumIdle ==
    /\ raw = << >>
    /\ npc = "done"
    /\ precBR = Null
    /\ precApi = Null

\* both normalisers applied to the raw value
Normaliza ==
    /\ npc = "raw"
    /\ precBR' = parseNumberBR(TextoDe(raw))
    /\ precApi' = numberOrNull(raw)
    /\ npc' = "done"
    /\ UNCHANGED << raw, now, bulletinVars, apiVars >>

-----------------------------------------------------------------------------
(* Specification of the bulletin run *)

\* a run of either script at 2025-11-03 13:00 UTC, with no forced date
Init ==
    /\ script \in {"emparn", "inmet"}
    /\ now = 29369580
    /\ FORCED_DATE = << >>
    /\ hostTZ = 0
    /\ Fresh
    /\ ApiIdle
    /\ NumIdle

Next ==
    \/ Resolve
    \/ \E doc \in Docs : RespondeOk(doc)
    \/ \E status \in StatusNaoOk : RespondeStatus(status)
    \/ RespondeRejeita
    \/ NuncaResponde

Spec == Init /\ [][Next]_vars

\* the event loop resumes the run whenever the awaited promise settles
FairSpec == Spec /\ WF_vars(Next)

-----------------------------------------------------------------------------
(* Specification of the identifier resolver: idDoDia over many clocks and   *)
(* forced dates                                                              *)

InitId ==
    /\ script \in {"emparn", "inmet"}
    /\ hostTZ \in HostZones
    /\ \/ FORCED_DATE = << >> /\ now \in Instants \cup RunInstants
       \/ FORCED_DATE \in ForcedDates \cup {Hoje} /\ now \in RunInstants
    /\ Fresh
    /\ ApiIdle
    /\ NumIdle

NextId == Resolve

SpecId == InitId /\ [][NextId]_vars

-----------------------------------------------------------------------------
(* Specification of the station-API run *)

InitApi ==
    /\ script = "inmet"
    /\ now = 29369580
    /\ FORCED_DATE = << >>
    /\ hostTZ = 0
    /\ Fresh
    /\ UF \in {UFDe(e) : e \in EnvUF}
    /\ DIAS \in {DIASDe(e) : e \in EnvDIAS}
    /\ ApiFresh
    /\ NumIdle

NextApi ==
    \/ ApiStart
    \/ \E sts \in ArraysOf(Estacoes, MaxStations) : EstacoesOk(sts)
    \/ \E rs \in ArraysOf(Linhas, MaxRows) : DadosOk(rs)
    \/ \E status \in StatusNaoOk : ApiRespondeStatus(status)
    \/ ApiRespondeRejeita

SpecApi == InitApi /\ [][NextApi]_vars

-----------------------------------------------------------------------------
(* Specification of the dedup of the station-API run: the run for RN, both  *)
(* stations listed, answered with repeated reports                          *)

InitDedup ==
    /\ script = "inmet"
    /\ now = 29369580
    /\ FORCED_DATE = << >>
    /\ hostTZ = 0
    /\ Fresh
    /\ ApiIdle
    /\ NumIdle

NextDedup ==
    \/ ApiStart
    \/ EstacoesOk(<< EstNatal, EstCaico >>)
    \/ \E rs \in ArraysOf(LinhasRepetidas, MaxRecs) : DadosOk(rs)

SpecDedup == InitDedup /\ [][NextDedup]_vars

-----------------------------------------------------------------------------
(* Specification of the normalisation of a precipitation value *)

InitNum ==
    /\ script = "inmet"
    /\ now = 29369580
    /\ FORCED_DATE = << >>
    /\ hostTZ = 0
    /\ Fresh
    /\ ApiIdle
    /\ raw \in RawValues
    /\ npc = "raw"
    /\ precBR = Null
    /\ precApi = Null

NextNum == Normaliza

SpecNum == InitNum /\ [][NextNum]_vars

-----------------------------------------------------------------------------
(* Specification of the table extraction: a bulletin run whose first request *)
(* is answered with a page of DocsDeFormas                                   *)

NextExtract ==
    \/ Resolve
    \/ \E doc \in DocsDeFormas : RespondeOk(doc)

SpecExtract == Init /\ [][NextExtract]_vars

-----------------------------------------------------------------------------
(* Vocabulary of the properties of the resolver, stated without the         *)
(* operators of the code: day numbers count days since 1970-01-01           *)

\* the day number of the anchor date 2025-10-29
DiaBase == 20390

\* the Fortaleza (UTC-3) calendar day an instant falls on
DiaLocal(t) == (t - 180) \div 1440

\* the two accepted spellings of each modelled day
ForcedTable == [d \in Days |-> << FmtDMY(CivilFromDays(d)), FmtYMD(CivilFromDays(d)) >>]

\* FORCED_DATE is spelt DD/MM/AAAA, respectively AAAA-MM-DD
ForcedIsDMY == Len(FORCED_DATE) = 10 /\ FORCED_DATE[3] = "/" /\ FORCED_DATE[6] = "/"

ForcedIsYMD == Len(FORCED_DATE) = 10 /\ FORCED_DATE[5] = "-" /\ FORCED_DATE[8] = "-"

\* a target date exists: the clock's local day, or a forced date in an accepted form
TargetDefined == FORCED_DATE = << >> \/ ForcedIsDMY \/ ForcedIsYMD

\* the target date, as a day number
TargetDay ==
    IF FORCED_DATE = << >> THEN DiaLocal(now)
    ELSE CHOOSE d \in Days : ForcedTable[d][IF ForcedIsDMY THEN 1 ELSE 2] = FORCED_DATE

\* the identifier the run of the following day resolves: the clock one day
\* later, or the forced date one day later in the same spelling
IdAmanha ==
    IF ForcedIsDMY THEN idDoDiaAt(FmtDMY(CivilFromDays(TargetDay + 1)), now, << >>)
    ELSE IF ForcedIsYMD THEN idDoDiaAt(FmtYMD(CivilFromDays(TargetDay + 1)), now, << >>)
    ELSE idDoDiaAt(FORCED_DATE, now + 1440, << >>)

\* the instants of the clock's UTC day and of its two neighbours
Vizinhos ==
    {d * 1440 + m : d \in ((now \div 1440) - 1)..((now \div 1440) + 1), m \in TimesOfDay}

-----------------------------------------------------------------------------
(* Properties of the resolver, checked under SpecId *)

\* C7: with no forced date the identifier depends only on the Fortaleza
\* calendar day of the instant: every instant of the same Fortaleza day
\* resolves to the identifier the run resolved, whatever the zone of the
\* machine, and an instant between 00:00 and 03:00 UTC resolves to the
\* identifier of the previous UTC date
C7_FortalezaDayDecides ==
    (pc # "start" /\ FORCED_DATE = << >>) =>
        /\ \A t \in Vizinhos :
               DiaLocal(t) = DiaLocal(now) => idDoDiaAt(<< >>, t, << >>) = idHoje
        /\ \A t \in Vizinhos :
               DiaLocal(t) # DiaLocal(now) => idDoDiaAt(<< >>, t, << >>) # idHoje
        /\ (now % 1440 < 180) => idHoje = 10965 + ((now \div 1440) - 1 - DiaBase)
        /\ (now % 1440 >= 180) => idHoje = 10965 + ((now \div 1440) - DiaBase)

\* a run at 02:59 UTC on a machine nine hours ahead of UTC resolved the
\* identifier of the previous UTC date
C7_Witness ==
    /\ pc # "start" /\ FORCED_DATE = << >>
    /\ now % 1440 = 179 /\ hostTZ = 540
    /\ idHoje = 10965 + ((now \div 1440) - 1 - DiaBase)

\* C8: the identifier resolved for the day after the target date is the
\* identifier resolved for the target date plus 1
C8_NextDayNextId == pc # "start" => IdAmanha = idHoje + 1

\* the target date is forced to 2025-12-31 and the following day, 2026-01-01,
\* resolves to the next identifier
C8_Witness ==
    /\ pc # "start" /\ ForcedIsDMY
    /\ FORCED_DATE = << "3", "1", "/", "1", "2", "/", "2", "0", "2", "5" >>
    /\ IdAmanha = idHoje + 1

\* C9: the identifier is 10965 plus the number of days from 2025-10-29 to the
\* target date, the candidates are [id, id - 1, id + 1] in that order, and the
\* target date 2025-11-03 gives 10970 and [10970, 10969, 10971]
C9_AnchorAndCandidates ==
    (pc # "start" /\ TargetDefined) =>
        /\ idHoje = 10965 + (TargetDay - DiaBase)
        /\ candidatos = << 10965 + (TargetDay - DiaBase),
                           10965 + (TargetDay - DiaBase) - 1,
                           10965 + (TargetDay - DiaBase) + 1 >>
        /\ (TargetDay = DiaBase + 5) =>
               idHoje = 10970 /\ candidatos = << 10970, 10969, 10971 >>

\* the clock reads 2025-11-03 10:00 in Fortaleza and the candidates are
\* [10970, 10969, 10971]
C9_Witness ==
    /\ pc # "start" /\ FORCED_DATE = << >> /\ now = 29369580
    /\ candidatos = << 10970, 10969, 10971 >>

-----------------------------------------------------------------------------
(* Vocabulary of the properties of the bulletin run *)

\* the position of an identifier among the candidates
CandIdx(id) == CHOOSE i \in 1..Len(candidatos) : candidatos[i] = id

\* the place of a transport strategy in the order direct, mirror-https, mirror-http
Rank(v) == CASE v = "direct" -> 1 [] v = "mirror_https" -> 2 [] v = "mirror_http" -> 3

\* the document has a body row with at least one cell under one of its tabs
DocTemLinhas(doc) ==
    \E id \in DOMAIN doc : \E t \in 1..Len(doc[id]) : \E r \in 1..Len(doc[id][t]) :
        Len(doc[id][t][r]) > 0

\* the attempt failed: a non-success status or a rejected request
Falhou(e) == e.reply.k \in {"status", "rejected"}

\* the attempt succeeded and its body yields rows
ComLinhas(e) == e.reply.k = "ok" /\ DocTemLinhas(e.reply.doc)

\* the attempts made for the candidate id
Tentativas(id) == {i \in DOMAIN net : net[i].id = id}

Terminated == pc \in {"done", "failed"}

\* the awaited request is one the remote end never answers
Unanswered == pc = "await" /\ net[Len(net)].reply.k = "never"

-----------------------------------------------------------------------------
(* Properties of the bulletin run, checked under Spec and FairSpec *)

\* C1: the candidates are tried in list order, each only after the earlier
\* ones were tried; an attempt whose body yields rows is the last attempt of
\* the run, which then succeeds and writes that attempt's identifier; when the
\* second candidate is the one written, the first was attempted and the third
\* never was
C1_FirstCandidateWithRowsWins ==
    pc # "start" =>
        /\ \A i, j \in DOMAIN net : i < j => CandIdx(net[i].id) <= CandIdx(net[j].id)
        /\ \A j \in DOMAIN net : \A k \in 1..(CandIdx(net[j].id) - 1) :
               \E i \in 1..(j - 1) : net[i].id = candidatos[k]
        /\ \A i \in DOMAIN net :
               ComLinhas(net[i]) =>
                   /\ i = Len(net) /\ pc = "done" /\ exitCode = 0
                   /\ latestJson.kind = "json" /\ latestJson.id = net[i].id
        /\ pc = "done" => ComLinhas(net[Len(net)])
        /\ (pc = "done" /\ latestJson.id = candidatos[2]) =>
               /\ Tentativas(candidatos[1]) # {}
               /\ Tentativas(candidatos[3]) = {}
        /\ ~Terminated => exitCode = -1

\* only the second candidate yielded rows: it is the identifier written, the
\* first candidate was attempted and the third was not
C1_Witness ==
    /\ pc = "done" /\ latestJson.kind = "json" /\ latestJson.id = candidatos[2]
    /\ Tentativas(candidatos[1]) # {}
    /\ \A i \in Tentativas(candidatos[1]) : ~ComLinhas(net[i])
    /\ Tentativas(candidatos[3]) = {}

\* C2: the attempts of one candidate start with the direct one and follow the
\* order direct, mirror-https, mirror-http; none follows a success; the body
\* handed to extraction is the body of the latest successful attempt; and when
\* direct and mirror-https failed and mirror-http succeeded, that candidate has
\* exactly 3 attempts
C2_StrategiesInOrder ==
    pc # "start" =>
        /\ \A i, j \in DOMAIN net :
               (i < j /\ net[i].id = net[j].id) => Rank(net[i].via) < Rank(net[j].via)
        /\ \A i \in DOMAIN net :
               (i = 1 \/ net[i - 1].id # net[i].id) => net[i].via = "direct"
        /\ \A i \in DOMAIN net :
               net[i].reply.k = "ok" => \A j \in DOMAIN net : j > i => net[j].id # net[i].id
        /\ LET oks == {i \in DOMAIN net : net[i].reply.k = "ok"}
           IN  oks # {} =>
                   LET m == CHOOSE i \in oks : \A j \in oks : j <= i
                   IN  html = [id |-> net[m].id, via |-> net[m].via, doc |-> net[m].reply.doc]
        /\ \A j \in DOMAIN net :
               (/\ j >= 3
                /\ net[j].via = "mirror_http" /\ net[j].reply.k = "ok"
                /\ net[j - 1].id = net[j].id /\ net[j - 1].via = "mirror_https"
                /\ Falhou(net[j - 1])
                /\ net[j - 2].id = net[j].id /\ net[j - 2].via = "direct"
                /\ Falhou(net[j - 2]))
               => Cardinality(Tentativas(net[j].id)) = 3

\* direct failed, mirror-https failed, mirror-http succeeded: the body handed
\* to extraction is the mirror-http body, after 3 attempts for the candidate
C2_Witness ==
    /\ Len(net) >= 3
    /\ LET j == Len(net)
       IN  /\ net[j].via = "mirror_http" /\ net[j].reply.k = "ok"
           /\ net[j - 1].id = net[j].id /\ net[j - 1].via = "mirror_https"
           /\ Falhou(net[j - 1])
           /\ net[j - 2].id = net[j].id /\ net[j - 2].via = "direct"
           /\ Falhou(net[j - 2])
           /\ html = [id |-> net[j].id, via |-> "mirror_http", doc |-> net[j].reply.doc]
           /\ Cardinality(Tentativas(net[j].id)) = 3

\* C3: in the script with three strategies, a candidate is reported as failed
\* only after the direct, the mirror-https and the mirror-http attempts were
\* all made for it and all failed
C3_FailureOnlyAfterAllStrategies ==
    script = "inmet" =>
        \A w \in DOMAIN console :
            console[w].line = "Falha no ID" =>
                \A v \in Vias :
                    \E i \in Tentativas(console[w].id) : net[i].via = v /\ Falhou(net[i])

\* C4: when no candidate gave rows the run fails, and the error it surfaces
\* names the three attempted identifiers with a cause for each
C4_TerminalErrorListsCandidates ==
    pc = "failed" =>
        /\ exitCode = 1
        /\ err.ids = {candidatos[i] : i \in 1..Len(candidatos)}
        /\ Len(err.causas) = Len(candidatos)

\* no more than 3 * 3 attempts, none for the same candidate and strategy twice
C5_Bounded ==
    /\ Len(net) <= 9
    /\ \A i, j \in DOMAIN net :
           i < j => << net[i].id, net[i].via >> # << net[j].id, net[j].via >>

\* C5: a run makes at most 9 attempts, never two for the same candidate and
\* strategy, and, every attempt having an outcome, reaches success or terminal
\* failure
C5_BoundedAttemptsThenTerminal == [](C5_Bounded) /\ <>(Terminated \/ Unanswered)

\* all nine attempts were made and the run ended in terminal failure
C5_Witness == pc = "failed" /\ Len(net) = 9 /\ exitCode = 1

\* C6: the run terminates even when a remote end never answers an attempt
C6_TerminatesThoughUnanswered == <>Terminated

-----------------------------------------------------------------------------
(* Properties of the station-API run *)

\* the records of the station-API output, as written to data/inmet.json
Saida == inmetJson.registros

\* the station s answered by /estacoes belongs to the configured unit
DaUnidade(s) ==
    \/ "UF" \in DOMAIN s /\ s["UF"] # << >> /\ ToUpperCase(s["UF"]) = UF
    \/ /\ "UF" \notin DOMAIN s \/ s["UF"] = << >>
       /\ "DC_UF" \in DOMAIN s /\ ToUpperCase(s["DC_UF"]) = UF

\* the codes the stations of the configured unit are listed under
CodigosDaUnidade ==
    UNION {{Trim(stations[i][f]) :
               f \in {"CD_ESTACAO", "CD_EST", "CD_WIGOS", "CD_OMM", "CD_SIRED"}
                     \cap DOMAIN stations[i]}
           : i \in {n \in DOMAIN stations : DaUnidade(stations[n])}} \ {<< >>}

\* the rows of /estacoes/T whose code is a key of the station reference set
LinhasComEstacao == {j \in DOMAIN rows : CodigoDaLinha(rows[j]) \in DOMAIN stationByCode}

\* C10: once the station-API run has written its output, every record of it
\* carries a station code that is a key of the station reference set, itself
\* made of codes of stations of the configured unit only, and is the record of
\* a row of that code; the rows whose code is empty or not a key gave no
\* record, the others gave one each
C10_OutputJoinsReferenceSet ==
    apc = "done" =>
        /\ apiJson.registros = Saida
        /\ DOMAIN stationByCode \subseteq CodigosDaUnidade
        /\ << >> \notin DOMAIN stationByCode
        /\ \A i \in DOMAIN Saida :
               /\ Saida[i].station_code \in DOMAIN stationByCode
               /\ \E j \in LinhasComEstacao : CodigoDaLinha(rows[j]) = Saida[i].station_code
               /\ \E k \in DOMAIN out : out[k] = Saida[i]
        /\ Len(out) = Cardinality(LinhasComEstacao)
        /\ \A j \in LinhasComEstacao :
               \E i \in DOMAIN Saida : Saida[i].station_code = CodigoDaLinha(rows[j])
        /\ \A j \in DOMAIN rows \ LinhasComEstacao :
               \A i \in DOMAIN Saida : Saida[i].station_code # CodigoDaLinha(rows[j])

\* a run for RN answered with a station of RN and one of PB, and with a row of
\* each: the row of the PB station, whose code is not a key, is dropped and
\* the other one is written
C10_Witness ==
    /\ apc = "done"
    /\ UF = << "R", "N" >>
    /\ stations = << EstNatal, EstPatos >>
    /\ rows = << LinhaNatal, LinhaPatos >>
    /\ DOMAIN stationByCode = {<< "A", "3", "0", "1" >>}
    /\ Len(Saida) = 1
    /\ Saida[1].station_code = << "A", "3", "0", "1" >>

-----------------------------------------------------------------------------
(* Properties of the dedup *)

\* the places of out holding a record of the key of out[i]
MesmaChave(i) == {j \in DOMAIN out : key(out[j]) = key(out[i])}

\* the first place of out holding the key k
PrimeiroCom(k) == CHOOSE i \in DOMAIN out : key(out[i]) = k /\ \A j \in 1..(i - 1) : key(out[j]) # k

\* C11: the dedup applied to its own result changes nothing, and its result is
\* never longer than what it was given
C11_DedupIdempotentNeverGrows ==
    apc = "done" =>
        /\ uniq = Dedup(out)
        /\ Dedup(uniq) = uniq
        /\ Dedup(Dedup(out)) = Dedup(out)
        /\ Len(uniq) <= Len(out)

\* four reports, three of them of one station and hour, reduced to two records
C11_Witness ==
    /\ apc = "done"
    /\ Len(out) = 4
    /\ Len(uniq) = 2
    /\ Cardinality({key(out[i]) : i \in DOMAIN out}) = 2
    /\ Dedup(uniq) = uniq

\* C12: the dedup result holds exactly one record per identity key of its
\* input; that record is the last input record of the key; and the records
\* stand in the order of the first input record of their keys
C12_LastWinsFirstOrder ==
    apc = "done" =>
        /\ {key(uniq[n]) : n \in DOMAIN uniq} = {key(out[i]) : i \in DOMAIN out}
        /\ \A m, n \in DOMAIN uniq : m # n => key(uniq[m]) # key(uniq[n])
        /\ \A n \in DOMAIN uniq :
               \E i \in DOMAIN out :
                   /\ key(out[i]) = key(uniq[n])
                   /\ \A j \in MesmaChave(i) : j <= i
                   /\ uniq[n] = out[i]
        /\ \A m, n \in DOMAIN uniq :
               m < n => PrimeiroCom(key(uniq[m])) < PrimeiroCom(key(uniq[n]))

\* the hour of Natal reported twice with another report between them, the two
\* reports differing in the municipality name: the record kept is the later
\* report, and it stands first
C12_Witness ==
    /\ apc = "done"
    /\ rows = << LinhaNatal, LinhaCaico, LinhaNatalBis >>
    /\ Len(uniq) = 2
    /\ out[1] # out[3]
    /\ key(out[1]) = key(out[3])
    /\ uniq[1] = out[3]
    /\ uniq[2] = out[2]

-----------------------------------------------------------------------------
(* Properties of the records and artifacts of the bulletin run *)

\* the records the bulletin run emitted, as written to data/latest.json
Emitidos == latestJson.dados

\* the identity of a bulletin record: region, post, hours, value
Identidade(r) == << r.regiao, r.posto, r.horas, r.precipitacao_mm.t,
                    IF r.precipitacao_mm.t = "num"
                    THEN << r.precipitacao_mm.neg, r.precipitacao_mm.m, r.precipitacao_mm.e >>
                    ELSE << >> >>

\* C13: the records a successful bulletin run emits went through the dedup:
\* no two of them have the same region, post, hours and value
C13_EmittedRecordsDeduplicated ==
    pc = "done" =>
        \A i, j \in DOMAIN Emitidos :
            i # j => Identidade(Emitidos[i]) # Identidade(Emitidos[j])

-----------------------------------------------------------------------------
(* Properties of the normalisation of a precipitation value *)

\* x is null or a finite decimal number
NullOuFinito(x) ==
    \/ x.t = "null"
    \/ x.t = "num" /\ x.neg \in BOOLEAN /\ x.m \in Nat /\ x.e \in Nat

\* x is the number m / 10^e
Vale(x, m, e) == x.t = "num" /\ ~x.neg /\ x.m = m /\ x.e = e

\* the raw value is the text t
RawIs(t) == raw = << t >>

\* the raw value is missing, empty, or a text of letters and signs without
\* any digit
SemNumero ==
    \/ raw = << >>
    \/ raw[1] = << >>
    \/ /\ \A i \in DOMAIN raw[1] : ~IsDigit(raw[1][i])
       /\ \E i \in DOMAIN raw[1] : ~IsWhite(raw[1][i])

\* C14: whatever the raw value (missing, empty, text that is no number, text
\* that is one), the precipitation either normaliser gives is null or a
\* finite number, never NaN, never an infinity, and is always given
C14_PrecipitationNullOrFinite ==
    npc = "done" => NullOuFinito(precBR) /\ NullOuFinito(precApi)

\* the text "Infinity", which parseFloat and Number read as an infinity, is
\* normalised to null by both
C14_Witness ==
    /\ npc = "done"
    /\ RawIs(<< "I", "n", "f", "i", "n", "i", "t", "y" >>)
    /\ precBR = Null
    /\ precApi = Null

\* C15: both normalisers read Brazilian notation, "." separating thousands
\* and "," the decimals: "1.234,56" is 1234.56, "1.234,5" is 1234.5, "12,5"
\* is 12.5; a missing or empty value, and a text that holds no digit, is null
C15_BrazilianNotationBothSources ==
    npc = "done" =>
        /\ RawIs(<< "1", ".", "2", "3", "4", ",", "5", "6" >>)
               => Vale(precBR, 123456, 2) /\ Vale(precApi, 123456, 2)
        /\ RawIs(<< "1", ".", "2", "3", "4", ",", "5" >>)
               => Vale(precBR, 12345, 1) /\ Vale(precApi, 12345, 1)
        /\ RawIs(<< "1", "2", ",", "5" >>)
               => Vale(precBR, 125, 1) /\ Vale(precApi, 125, 1)
        /\ SemNumero => precBR.t = "null" /\ precApi.t = "null"

-----------------------------------------------------------------------------
(* Properties of the failure reported for a candidate *)

\* the error e carries the cause of the failed attempt a
CarregaCausa(e, a) ==
    \/ /\ a.reply.k = "status"
       /\ \/ e.k = "status" /\ e.via = a.via /\ e.status = a.reply.status
          \/ e.k = "proxy" /\ a.via = "mirror_https" /\ e.https = a.reply.status
          \/ e.k = "proxy" /\ a.via = "mirror_http" /\ e.http = a.reply.status
    \/ /\ a.reply.k = "rejected"
       /\ e.k = "rejected" /\ e.via = a.via

\* C16: in the script with three strategies, the failure reported for a
\* candidate carries the cause of the failure of every strategy attempted for
\* it, not of the last one only
C16_FailureCarriesEveryCause ==
    script = "inmet" =>
        \A w \in DOMAIN console :
            console[w].line = "Falha no ID" =>
                \A i \in Tentativas(console[w].id) :
                    Falhou(net[i]) => CarregaCausa(console[w].causa, net[i])

-----------------------------------------------------------------------------
(* Properties of the table extraction *)

\* the sections in the order of their declaration, with the name records carry
Secoes == << << "agreste_potiguar", "Agreste Potiguar" >>,
             << "central_potiguar", "Central Potiguar" >>,
             << "leste_potiguar", "Leste Potiguar" >>,
             << "oeste_potiguar", "Oeste Potiguar" >> >>

\* the page extracted
Pagina == html.doc

\* the cells of the body row at section s, table t, row r of the page
Celulas(p) == Pagina[Secoes[p[1]][1]][p[2]][p[3]]

\* the places <<section, table, row>> of the body rows with at least one cell
LinhasComCelulas ==
    UNION {UNION {{<< sec, t, r >> : r \in {x \in 1..Len(Pagina[Secoes[sec][1]][t]) :
                                              Len(Pagina[Secoes[sec][1]][t][x]) > 0}}
                  : t \in 1..Len(Pagina[Secoes[sec][1]])}
           : sec \in 1..4}

\* place p comes before place q in document order
Antes(p, q) ==
    \/ p[1] < q[1]
    \/ p[1] = q[1] /\ p[2] < q[2]
    \/ p[1] = q[1] /\ p[2] = q[2] /\ p[3] < q[3]

\* the rank of place p among the rows with cells
Posto(p) == 1 + Cardinality({q \in LinhasComCelulas : Antes(q, p)})

\* the i-th cell of a row as a field: its text, blanks collapsed and trimmed,
\* and null (<< >>) when the row has no such cell or the cell is empty
Campo(cells, i) == IF i <= Len(cells) THEN CellText(cells[i]) ELSE << >>

IgualNumero(a, b) ==
    a.t = b.t /\ (a.t = "num" => a.neg = b.neg /\ a.m = b.m /\ a.e = b.e)

\* C17: the extraction gives one record per body row having a cell, in the
\* order of the sections and of the rows within them; a row without cells
\* gives none; the fields of a record are the cells of its row, those past
\* its last cell null; the other rows are extracted all the same
C17_OneRecordPerRowWithCells ==
    pc = "done" =>
        /\ Len(dados) = Cardinality(LinhasComCelulas)
        /\ \A p \in LinhasComCelulas :
               LET rec == dados[Posto(p)]
                   cells == Celulas(p)
               IN  /\ rec.regiao = Secoes[p[1]][2]
                   /\ rec.municipio = Campo(cells, 1)
                   /\ rec.posto = Campo(cells, 2)
                   /\ rec.tipo_posto = Campo(cells, 3)
                   /\ rec.horas = Campo(cells, 4)
                   /\ IgualNumero(rec.precipitacao_mm, parseNumberBR(Campo(cells, 5)))
                   /\ Len(cells) < 5 => rec.precipitacao_mm.t = "null"

\* a page with, under the first tab, a row without cells then a row of two
\* cells and, under the last tab, a row of four cells: three records, the row
\* of two cells first with its last three fields null
C17_Witness ==
    /\ pc = "done"
    /\ Pagina["agreste_potiguar"] = << << << >>, << Caico, << "P", "2" >> >> >> >>
    /\ Pagina["oeste_potiguar"] = << << << Natal, << " " >>, Convencional, DezHoras >> >> >>
    /\ Len(dados) = 3
    /\ dados[1].regiao = "Agreste Potiguar"
    /\ dados[1].municipio = Caico
    /\ dados[1].tipo_posto = << >>
    /\ dados[1].horas = << >>
    /\ dados[1].precipitacao_mm = Null
    /\ dados[2].regiao = "Central Potiguar"
    /\ dados[3].regiao = "Oeste Potiguar"
    /\ dados[3].posto = << >>

-----------------------------------------------------------------------------
(* Properties of the artifacts of the bulletin run *)

\* the attempts answered with an ok status and a body
Sucedidas == {i \in DOMAIN net : net[i].reply.k = "ok"}

\* the last of them
UltimaSucedida == CHOOSE i \in Sucedidas : \A j \in Sucedidas : j <= i

\* C18: before any fetch succeeded data/rendered.html is as the run found it;
\* from then on it holds the body of the latest successful fetch, with or
\* without rows in it, whatever fetches failed since
C18_RenderedIsLatestBody ==
    IF Sucedidas = {} THEN rendered.kind = "old"
    ELSE /\ rendered.kind = "html"
         /\ rendered.body.id = net[UltimaSucedida].id
         /\ rendered.body.via = net[UltimaSucedida].via
         /\ rendered.body.doc = net[UltimaSucedida].reply.doc

\* the first candidate's page came without rows, then a page without rows
\* came for the second candidate through the mirror, then a fetch failed for
\* the third: the file holds the second candidate's page
C18_Witness ==
    /\ Len(net) >= 5
    /\ net[1].reply.k = "ok" /\ ~DocTemLinhas(net[1].reply.doc)
    /\ net[2].reply.k = "status"
    /\ net[3].reply.k = "ok" /\ ~DocTemLinhas(net[3].reply.doc)
    /\ net[3].via = "mirror_http"
    /\ net[4].reply.k = "rejected"
    /\ rendered.kind = "html"
    /\ rendered.body.id = net[3].id
    /\ rendered.body.id # net[1].id
    /\ rendered.body.via = "mirror_http"


\* line n of data/latest.csv is the record n of data/latest.json
LinhaDoCsv(n) ==
    LET l == latestCsv.lines[n]
        r == latestJson.dados[n]
    IN  /\ l[1] = r.regiao
        /\ l[2] = r.municipio
        /\ l[3] = r.posto
        /\ l[4] = r.tipo_posto
        /\ l[5] = r.horas
        /\ IgualNumero(l[6], r.precipitacao_mm)

\* data/latest.json and data/latest.csv are as the run found them, or the run
\* has succeeded and they hold the rows, one at least, of the body of the last
\* fetch, the JSON one naming the candidate that body was fetched for
C19_Artifacts ==
    /\ latestJson.kind = "old" <=> latestCsv.kind = "old"
    /\ pc # "done" => latestJson.kind = "old"
    /\ pc = "done" =>
           /\ latestJson.kind = "json" /\ latestCsv.kind = "csv"
           /\ Len(latestJson.dados) > 0
           /\ latestJson.dados = dados
           /\ net[Len(net)].reply.k = "ok" /\ DocTemLinhas(net[Len(net)].reply.doc)
           /\ latestJson.id = net[Len(net)].id
           /\ latestJson.id = candidatos[ci]
           /\ Len(latestCsv.lines) = Len(latestJson.dados)
           /\ \A n \in DOMAIN latestJson.dados : LinhaDoCsv(n)

\* once written, neither artifact is written again
C19_WrittenOnce ==
    latestJson.kind # "old" => latestJson' = latestJson /\ latestCsv' = latestCsv

\* C19: the two output artifacts are written at most once, together, with a
\* non-empty list of records of one candidate and that candidate's
\* identifier; a run that fails leaves them as they were
C19_OutputsWrittenOnceTogether == [](C19_Artifacts) /\ [][C19_WrittenOnce]_vars

\* the first candidate's page had no rows and the second candidate's had: the
\* artifacts hold the second page's rows under the second identifier
C19_Witness ==
    /\ pc = "done"
    /\ Len(net) = 2
    /\ net[1].reply.k = "ok" /\ ~DocTemLinhas(net[1].reply.doc)
    /\ latestJson.kind = "json"
    /\ latestJson.id = candidatos[2]
    /\ latestJson.id # idHoje
    /\ Len(latestJson.dados) = 3
    /\ Len(latestCsv.lines) = 3

-----------------------------------------------------------------------------
(* Properties of the requests of the station-API run *)

\* the request i of the run failed: a non-success status or a rejection
PedidoFalhou(i) == reqs[i].reply.k \in {"status", "rejected"}

\* none of the three files of the station-API run has been written
NadaEscrito == inmetJson.kind = "old" /\ apiJson.kind = "old" /\ apiCsv.kind = "old"

\* C20: the station-API run asks for the stations, then, only if that request
\* succeeded, for the observations, and makes no other request; a request that
\* fails ends the run in failure at once with none of its three files
\* written; the files are written only by a run whose two requests succeeded
C20_TwoRequestsAllOrNothing ==
    /\ Len(reqs) <= 2
    /\ Len(reqs) >= 1 => reqs[1].url.path = "/estacoes"
    /\ Len(reqs) = 2 => reqs[2].url.path = "/estacoes/T" /\ reqs[1].reply.k = "ok"
    /\ \A i \in DOMAIN reqs :
           PedidoFalhou(i) =>
               /\ i = Len(reqs)
               /\ apc = "failed"
               /\ apiExit = 1
               /\ NadaEscrito
    /\ apc = "failed" => PedidoFalhou(Len(reqs))
    /\ apc = "done" =>
           /\ Len(reqs) = 2
           /\ reqs[1].reply.k = "ok" /\ reqs[2].reply.k = "ok"
           /\ apiExit = 0
           /\ inmetJson.kind = "json" /\ apiJson.kind = "json" /\ apiCsv.kind = "csv"
    /\ apc # "done" => NadaEscrito

\* the stations were received and the request for the observations was
\* answered with a non-success status: the run failed with nothing written
C20_Witness ==
    /\ apc = "failed"
    /\ Len(reqs) = 2
    /\ reqs[1].reply.k = "ok"
    /\ reqs[2].reply.k = "status"
    /\ Len(stations) = 2
    /\ apiExit = 1
    /\ NadaEscrito

====
